---- MODULE Spec2Model ----
(***************************************************************************)
(* ldapom: an LDAP object mapper.  The model covers                        *)
(*   - LdapAttribute  (per-attribute value list with change tracking),     *)
(*   - LdapConnection (primitive operations wrapped by the reconnect       *)
(*     decorators _retry_on_disconnect / _retry_on_disconnect_gen),        *)
(*   - LdapNode       (lazy entry, save / delete).                         *)
(* Python lists are sequences (1-based here, 0-based keys are shifted).    *)
(***************************************************************************)
EXTENDS Integers, Sequences, FiniteSets, TLC

VARIABLES
  attribute,   \* a stand-alone LdapAttribute object
  ret,         \* what get_change_list() returned, until the object is changed again
  last,        \* the last method called on it: [op, arg]
  lo,          \* LdapConnection._lo: the session handle, bound or not
  stream,      \* what the directory holds for the running query: [n, missing]
  gen,         \* the generator object LdapConnection.query() returned
  qobs,        \* what the consumer of gen has seen / the primitives have done
  login,       \* LdapConnection._login, ._password: the stored bind identity
  auth,        \* the last authenticate() call: arguments, bind result, outcome
  server,      \* the directory entry the LdapNode names, as the server holds it
  node,        \* the LdapNode the caller holds
  call,        \* the last call on the node: its arguments, exception, network calls
  nops         \* number of calls made on the node since the caller obtained it

vars == <<attribute, ret, last, lo, stream, gen, qobs, login, auth, server, node, call, nops>>
attrVars == <<attribute, ret, last>>
queryVars == <<stream, gen, qobs, login, auth>>
nodeVars == <<server, node, call, nops>>

\* ------------------------------------------------------------------ bounds
MaxVals == 3        \* longest value list a caller passes in / a tracker grows to
MaxAdded == 3       \* longest incremental add list kept before a discard
MaxResults == 5     \* most entries a search matches
MaxList == 2        \* longest value list a caller of LdapNode sets or appends to
MaxPending == 2     \* longest list of pending attribute deletions
MaxOps == 3         \* most calls a caller makes on one LdapNode object

\* ------------------------------------------------------- Python values
\* Strings stand for themselves; the two non-string objects a caller can
\* hand in are tokens that no string equals.
PyNone == "<None>"
PyInt7 == "<int 7>"
Strings == {"a", "b", "7"}
NonStrings == {PyNone, PyInt7}

\* str(value): the text of a Python object
str(value) ==
  CASE value = PyNone -> "None"
    [] value = PyInt7 -> "7"
    [] OTHER -> value

\* the one element of a one-element set
The(S) == CHOOSE x \in S : TRUE

\* A Python argument that is either a list or a single object:
\* type(value) == list is the field "list".
PyList(items) == [list |-> TRUE, items |-> items]
PyScalar(x) == [list |-> FALSE, items |-> <<x>>]

\* the lists over S of at most n elements
RECURSIVE SeqsUpTo(_, _)
SeqsUpTo(S, n) ==
  IF n = 0 THEN {<<>>}
  ELSE LET shorter == SeqsUpTo(S, n - 1)
       IN shorter \cup {Append(s, x) : s \in {t \in shorter : Len(t) = n - 1}, x \in S}

\* ldap.MOD_ADD, ldap.MOD_DELETE, ldap.MOD_REPLACE
MOD_ADD == "MOD_ADD"
MOD_DELETE == "MOD_DELETE"
MOD_REPLACE == "MOD_REPLACE"

\* A modify instruction: the Python tuple (op, name, value)
Instr(op, name, value) == [op |-> op, name |-> name, value |-> value]
\* Any other Python object met as the element of a list
Atom(x) == [atom |-> x]
IsInstr(e) == DOMAIN e = {"op", "name", "value"}

Names == {"sn", "loginShell"}

\* ------------------------------------------------------- LdapAttribute
\* self._name, self._values, self._added, self._replace_all
Tracker(name, values, added, replace_all) ==
  [name |-> name, values |-> values, added |-> added, replace_all |-> replace_all]

InSeq(x, s) == \E i \in 1..Len(s) : s[i] = x

\* LdapAttribute.append
append(self, value) ==
  IF ~InSeq(value, self.values)
  THEN [self EXCEPT !.values = Append(@, str(value)),
                    !.added = Append(@, Instr(MOD_ADD, self.name, str(value)))]
  ELSE self

RECURSIVE append_all(_, _)
append_all(self, items) ==
  IF items = <<>> THEN self
  ELSE The({append_all(next, Tail(items)) : next \in {append(self, Head(items))}})

\* LdapAttribute.__init__
LdapAttribute(name, value, add) ==
  IF add
  THEN append_all(Tracker(name, <<>>, <<>>, FALSE), value.items)
  ELSE IF value.list
       THEN Tracker(name, value.items, <<>>, FALSE)
       ELSE Tracker(name, <<str(value.items[1])>>, <<>>, FALSE)

\* LdapAttribute.__setitem__ with a key in 0..len-1; an out-of-range key
\* raises IndexError after the flag has been set.
setitem(self, key, value) ==
  IF key + 1 \in 1..Len(self.values)
  THEN [self EXCEPT !.replace_all = TRUE, !.values[key + 1] = str(value)]
  ELSE [self EXCEPT !.replace_all = TRUE]

RemoveAt(s, i) == SubSeq(s, 1, i - 1) \o SubSeq(s, i + 1, Len(s))

\* LdapAttribute.__delitem__
delitem(self, key) ==
  IF key + 1 \in 1..Len(self.values)
  THEN [self EXCEPT !.replace_all = TRUE, !.values = RemoveAt(@, key + 1)]
  ELSE [self EXCEPT !.replace_all = TRUE]

\* LdapAttribute.set_value
set_value_keep_flag(self, value) ==
  IF value.list
  THEN [self EXCEPT !.values = value.items]
  ELSE [self EXCEPT !.values = <<str(value.items[1])>>]
set_value(self, value) ==
  IF value.list
  THEN [self EXCEPT !.values = value.items, !.replace_all = TRUE]
  ELSE [self EXCEPT !.values = <<str(value.items[1])>>, !.replace_all = TRUE]

\* LdapAttribute.get_change_list: the returned Python sequence.  With the
\* flag set and no value left the return value is the bare 3-tuple
\* (MOD_DELETE, name, None), whose elements are its three components.
get_change_list_merge(self) ==
  IF self.replace_all
  THEN IF Len(self.values) = 0
       THEN <<Atom(MOD_DELETE), Atom(self.name), Atom(PyNone)>>
       ELSE [i \in 1..Len(self.values) |->
               Instr(IF i = 1 THEN MOD_REPLACE ELSE MOD_ADD, self.name, self.values[i])]
            \o self.added
  ELSE self.added
get_change_list(self) ==
  IF self.replace_all
  THEN IF Len(self.values) = 0
       THEN <<Atom(MOD_DELETE), Atom(self.name), Atom(PyNone)>>
       ELSE [i \in 1..1 |-> Instr(MOD_REPLACE, self.name, self.values[i])]
            \o [i \in 1..(Len(self.values) - 1) |->
                  Instr(MOD_ADD, self.name, self.values[i + 1])]
  ELSE self.added

\* LdapAttribute.discard_change_list
discard_change_list_keep_flag(self) == [self EXCEPT !.added = <<>>]
discard_change_list(self) == [self EXCEPT !.added = <<>>, !.replace_all = FALSE]

\* ------------------------------------------------------- LdapConnection
\* Exceptions the ldap library raises out of a primitive; "none" = no exception.
SERVER_DOWN == "SERVER_DOWN"
ConnFaults == {"none", SERVER_DOWN, "INVALID_CREDENTIALS"}
SearchFaults == {"none", SERVER_DOWN}

\* LdapConnection._connect: ldap.initialize stores a fresh, unbound handle in
\* self._lo; simple_bind_s then binds it or raises fault c.
connect(c) == [lo |-> IF c = "none" THEN "bound" ELSE "unbound", exc |-> c]

\* One gen.next() of the generator LdapConnection.query: (on the first call
\* self._lo.search, then) one self._lo.result.  pos results have been fetched
\* so far from a stream of st.n entries; a base that does not exist
\* (st.missing) makes result() raise NO_SUCH_OBJECT.
query_next(pos, st, f) ==
  IF f = SERVER_DOWN
  THEN [kind |-> "raise", exc |-> SERVER_DOWN, val |-> 0, pos |-> pos]
  ELSE IF st.missing
  THEN [kind |-> "raise", exc |-> "NO_SUCH_OBJECT", val |-> 0, pos |-> pos]
  ELSE IF pos < st.n
  THEN [kind |-> "yield", exc |-> "none", val |-> pos + 1, pos |-> pos + 1]
  ELSE [kind |-> "stop", exc |-> "none", val |-> 0, pos |-> pos]

\* What one next() on the wrapper generator does
Outcome(r, pc, lo_, downs, reconnects, issued, connexc) ==
  [kind |-> r.kind, exc |-> r.exc, val |-> r.val, pos |-> r.pos,
   pc |-> IF r.kind = "yield" THEN pc ELSE "done",
   lo |-> lo_, downs |-> downs, reconnects |-> reconnects, issued |-> issued,
   connexc |-> connexc]

Down(r) == IF r.kind = "raise" /\ r.exc = SERVER_DOWN THEN 1 ELSE 0

\* _retry_on_disconnect_gen.new: one next() of the wrapper generator, resumed
\* at g.pc: "start" (not yet run), "try" (suspended at the yield inside the
\* try block) or "loop" (suspended at the yield of the while loop).
\* f1: fault of the first gen.next() run, c: fault of _connect, f2: fault of
\* the gen.next() run after a reconnect.
retry_gen_next_unprotected(g, cur_lo, st, f1, c, f2) ==
  LET r1 == query_next(IF g.pc = "start" THEN 0 ELSE g.pos, st, f1)
  IN IF g.pc = "start"
     THEN Outcome(r1, "try", cur_lo, Down(r1), 0, 1, "none")
     ELSE Outcome(r1, "loop", cur_lo, Down(r1), 0, 0, "none")
retry_gen_next(g, cur_lo, st, f1, c, f2) ==
  LET r1 == query_next(IF g.pc = "start" THEN 0 ELSE g.pos, st, f1)
      k == connect(c)
      r2 == query_next(0, st, f2)
  IN IF g.pc = "start"
     THEN IF r1.kind = "raise" /\ r1.exc = SERVER_DOWN
          THEN IF k.exc # "none"
               THEN Outcome([kind |-> "raise", exc |-> k.exc, val |-> 0, pos |-> 0],
                            "done", k.lo, 1, 1, 1, k.exc)
               ELSE Outcome(r2, "loop", k.lo, 1 + Down(r2), 1, 2, "none")
          ELSE Outcome(r1, "try", cur_lo, 0, 0, 1, "none")
     ELSE Outcome(r1, "loop", cur_lo, Down(r1), 0, 0, "none")

\* self._login, self._password as given to LdapConnection.__init__
Login == [dn |-> "cn=admin", password |-> "secret"]
\* the identities the directory accepts, and what a caller may try
Accounts == {Login, [dn |-> "cn=u", password |-> "p"]}
BindDns == {"cn=admin", "cn=u"}
Passwords == {"secret", "p"}
BindFaults == {"none", SERVER_DOWN, "WRONG_TYPE"}
NoAuth == [dn |-> "none", password |-> "none", bind |-> "none", ret |-> "none", exc |-> "none"]

\* lo.simple_bind_s(dn, password) on a fresh session: the exception it
\* raises or the result type it returns
simple_bind_s(dn, password, f) ==
  IF f = SERVER_DOWN THEN SERVER_DOWN
  ELSE IF [dn |-> dn, password |-> password] \notin Accounts THEN "INVALID_CREDENTIALS"
  ELSE IF f = "WRONG_TYPE" THEN "RES_OTHER"
  ELSE "RES_BIND"

\* LdapConnection.authenticate: the value returned ("True" / "False") or the
\* exception raised, and the connection's session and stored identity after
authenticate_on_primary(cur_lo, cur_login, dn, password, f) ==
  LET b == simple_bind_s(dn, password, f)
  IN [bind |-> b,
      ret |-> IF b = "RES_BIND" THEN "True"
              ELSE IF b \in {"RES_OTHER", "INVALID_CREDENTIALS"} THEN "False" ELSE "none",
      exc |-> IF b \in {"RES_BIND", "RES_OTHER", "INVALID_CREDENTIALS"} THEN "none" ELSE b,
      lo |-> IF b \in {"RES_BIND", "RES_OTHER"} THEN "bound" ELSE "unbound",
      login |-> [dn |-> dn, password |-> password]]
authenticate(cur_lo, cur_login, dn, password, f) ==
  LET b == simple_bind_s(dn, password, f)
  IN [bind |-> b,
      ret |-> IF b = "RES_BIND" THEN "True"
              ELSE IF b \in {"RES_OTHER", "INVALID_CREDENTIALS"} THEN "False" ELSE "none",
      exc |-> IF b \in {"RES_BIND", "RES_OTHER", "INVALID_CREDENTIALS"} THEN "none" ELSE b,
      lo |-> cur_lo,
      login |-> cur_login]

\* The entries a search matches, or a base dn that does not exist
NoStream == [n |-> 0, missing |-> FALSE]
Streams == {[n |-> n, missing |-> FALSE] : n \in 0..MaxResults}
             \cup {[n |-> 0, missing |-> TRUE]}

NoObs == [out |-> <<>>, exc |-> "none", ended |-> FALSE,
          downs |-> 0, reconnects |-> 0, issued |-> 0, connexc |-> "none", first |-> "none"]

\* what the consumer has seen after one more next()
Observe(obs, o) ==
  [out |-> IF o.kind = "yield" THEN Append(obs.out, o.val) ELSE obs.out,
   exc |-> o.exc,
   ended |-> o.kind # "yield",
   downs |-> obs.downs + o.downs,
   reconnects |-> obs.reconnects + o.reconnects,
   issued |-> obs.issued + o.issued,
   connexc |-> IF o.reconnects = 1 THEN o.connexc ELSE obs.connexc,
   first |-> IF obs.issued = 0 /\ o.reconnects = 1 THEN SERVER_DOWN
             ELSE IF obs.issued = 0 /\ o.issued = 1 /\ o.kind = "raise" THEN o.exc
             ELSE obs.first]

\* list(generator): next() until the generator stops or raises.  f1, c, f2
\* are the faults met by the first next(), f3 the fault met by a later one.
RECURSIVE drain(_, _, _, _, _, _, _, _)
drain(g, cur_lo, st, obs, f1, c, f2, f3) ==
  The({ IF o.kind = "yield"
        THEN drain([pc |-> o.pc, pos |-> o.pos], o.lo, st, Observe(obs, o), f3, c, f2, f3)
        ELSE [obs |-> Observe(obs, o), lo |-> o.lo]
        : o \in {retry_gen_next(g, cur_lo, st, f1, c, f2)} })

\* ------------------------------------------------ the directory server
\* One entry (the dn every LdapNode of the model names): whether it exists
\* and, per attribute name, its values in stored order (<<>>: no such
\* attribute).
NoAttrs == [n \in Names |-> <<>>]
NoEntry == [exists |-> FALSE, attrs |-> NoAttrs]

NoDups(s) == \A i, j \in 1..Len(s) : s[i] = s[j] => i = j

\* One modification of a modify request applied to the entry's attributes
apply_mod(attrs, m) ==
  CASE m.op = MOD_DELETE ->
         IF attrs[m.name] = <<>>
         THEN [exc |-> "NO_SUCH_ATTRIBUTE", attrs |-> attrs]
         ELSE [exc |-> "none", attrs |-> [attrs EXCEPT ![m.name] = <<>>]]
    [] m.op = MOD_REPLACE ->
         [exc |-> "none", attrs |-> [attrs EXCEPT ![m.name] = <<m.value>>]]
    [] m.op = MOD_ADD ->
         IF InSeq(m.value, attrs[m.name])
         THEN [exc |-> "TYPE_OR_VALUE_EXISTS", attrs |-> attrs]
         ELSE [exc |-> "none", attrs |-> [attrs EXCEPT ![m.name] = Append(@, m.value)]]

\* The modifications of one request are applied in order, all or none
RECURSIVE apply_mods(_, _)
apply_mods(attrs, change) ==
  IF change = <<>> THEN [exc |-> "none", attrs |-> attrs]
  ELSE The({ IF r.exc # "none" THEN r ELSE apply_mods(r.attrs, Tail(change))
             : r \in {apply_mod(attrs, Head(change))} })

RECURSIVE add_attrs(_, _)
add_attrs(attrs, payload) ==
  IF payload = <<>> THEN [exc |-> "none", attrs |-> attrs]
  ELSE LET p == Head(payload)
       IN IF p.values = <<>> THEN [exc |-> "PROTOCOL_ERROR", attrs |-> attrs]
          ELSE IF attrs[p.name] # <<>> \/ ~NoDups(p.values)
          THEN [exc |-> "TYPE_OR_VALUE_EXISTS", attrs |-> attrs]
          ELSE add_attrs([attrs EXCEPT ![p.name] = p.values], Tail(payload))

\* self._lo.add_s / modify_s / delete_s with no transport fault.  The ldap
\* library refuses (TypeError) a modify list with an element that is not an
\* (op, name, value) tuple.
server_apply(srv, req) ==
  CASE req.op = "add" ->
         IF srv.exists THEN [exc |-> "ALREADY_EXISTS", srv |-> srv]
         ELSE LET r == add_attrs(NoAttrs, req.payload)
              IN IF r.exc # "none" THEN [exc |-> r.exc, srv |-> srv]
                 ELSE [exc |-> "none", srv |-> [exists |-> TRUE, attrs |-> r.attrs]]
    [] req.op = "modify" ->
         IF \E i \in 1..Len(req.payload) : ~IsInstr(req.payload[i])
         THEN [exc |-> "TypeError", srv |-> srv]
         ELSE IF ~srv.exists THEN [exc |-> "NO_SUCH_OBJECT", srv |-> srv]
         ELSE LET r == apply_mods(srv.attrs, req.payload)
              IN IF r.exc # "none" THEN [exc |-> r.exc, srv |-> srv]
                 ELSE [exc |-> "none", srv |-> [srv EXCEPT !.attrs = r.attrs]]
    [] req.op = "delete" ->
         IF ~srv.exists THEN [exc |-> "NO_SUCH_OBJECT", srv |-> srv]
         ELSE [exc |-> "none", srv |-> NoEntry]

WriteFaults == {"none", SERVER_DOWN, "WRONG_TYPE"}

\* The body of LdapConnection.add / modify / delete run once: the primitive
\* raises SERVER_DOWN (fault f), or is refused on a session that is not
\* bound, or is carried out by the server; a result of the wrong type
\* (fault WRONG_TYPE) raises LDAPError after the primitive has returned.
attempt(srv, cur_lo, req, f) ==
  IF f = SERVER_DOWN THEN [exc |-> SERVER_DOWN, srv |-> srv]
  ELSE IF cur_lo # "bound" THEN [exc |-> "INSUFFICIENT_ACCESS", srv |-> srv]
  ELSE LET r == server_apply(srv, req)
       IN IF r.exc = "none" /\ f = "WRONG_TYPE"
          THEN [exc |-> "LDAPError", srv |-> r.srv]
          ELSE r

\* What one call of a connection method did: the exception it raised to its
\* caller (exc), the server and session it left, the number of times the
\* wrapped function was run (attempts), the number of _connect calls
\* (reconnects), of SERVER_DOWN raised by primitives (downs), the exception
\* of the first run (first) and of _connect (connexc).
NetCall(op, payload, exc, srv, lo_, attempts, reconnects, downs, first, connexc) ==
  [op |-> op, payload |-> payload, exc |-> exc, srv |-> srv, lo |-> lo_,
   attempts |-> attempts, reconnects |-> reconnects, downs |-> downs,
   first |-> first, connexc |-> connexc]

\* _retry_on_disconnect.new around add / modify / delete
retry_on_any_error(srv, cur_lo, req, f1, c, f2) ==
  LET r1 == attempt(srv, cur_lo, req, f1)
      k == connect(c)
      r2 == attempt(r1.srv, k.lo, req, f2)
      d == (IF r1.exc = SERVER_DOWN THEN 1 ELSE 0)
  IN IF r1.exc = "none"
     THEN NetCall(req.op, req.payload, r1.exc, r1.srv, cur_lo, 1, 0, 0, r1.exc, "none")
     ELSE IF k.exc # "none"
          THEN NetCall(req.op, req.payload, k.exc, r1.srv, k.lo, 1, 1, d, r1.exc, k.exc)
          ELSE NetCall(req.op, req.payload, r2.exc, r2.srv, k.lo, 2, 1,
                       d + (IF r2.exc = SERVER_DOWN THEN 1 ELSE 0), r1.exc, "none")
retry_on_disconnect(srv, cur_lo, req, f1, c, f2) ==
  LET r1 == attempt(srv, cur_lo, req, f1)
      k == connect(c)
      r2 == attempt(r1.srv, k.lo, req, f2)
  IN IF r1.exc # SERVER_DOWN
     THEN NetCall(req.op, req.payload, r1.exc, r1.srv, cur_lo, 1, 0, 0, r1.exc, "none")
     ELSE IF k.exc # "none"
          THEN NetCall(req.op, req.payload, k.exc, r1.srv, k.lo, 1, 1, 1, r1.exc, k.exc)
          ELSE NetCall(req.op, req.payload, r2.exc, r2.srv, k.lo, 2, 1,
                       1 + (IF r2.exc = SERVER_DOWN THEN 1 ELSE 0), r1.exc, "none")

\* LdapConnection.query(base=dn, scope=SCOPE_BASE) consumed by list()
BaseStream(srv) == [n |-> IF srv.exists THEN 1 ELSE 0, missing |-> ~srv.exists]
query_base(srv, cur_lo, f1, c, f2, f3) ==
  LET d == drain([pc |-> "start", pos |-> 0], cur_lo, BaseStream(srv), NoObs, f1, c, f2, f3)
  IN NetCall("query", [i \in 1..Len(d.obs.out) |-> [entry |-> d.obs.out[i]]],
             d.obs.exc, srv, d.lo,
             d.obs.issued, d.obs.reconnects, d.obs.downs, d.obs.first, d.obs.connexc)

\* ------------------------------------------------------------- LdapNode
\* self._valid, self._new, self._to_delete, self._attr.  loaded is
\* "self._attr != None"; attr lists the LdapAttribute objects of the dict in
\* its iteration order (self._attr.values()).
Node(valid, new, loaded, attr, to_delete) ==
  [valid |-> valid, new |-> new, loaded |-> loaded, attr |-> attr, to_delete |-> to_delete]

\* LdapNode.__init__
NodeInit(new) == Node(TRUE, new, new, <<>>, <<>>)

HasAttr(attr, name) == \E i \in 1..Len(attr) : attr[i].name = name
IndexOf(attr, name) == CHOOSE i \in 1..Len(attr) : attr[i].name = name
InsertAt(s, i, x) == SubSeq(s, 1, i - 1) \o <<x>> \o SubSeq(s, i, Len(s))

\* the value argument of a call that takes none
NoArg == [list |-> FALSE, items |-> <<>>]

\* after: whether the call before this one on the same node was a save(),
\* and how it ended
NodeCall(op, name, value, exc, net) ==
  [op |-> op, name |-> name, value |-> value, exc |-> exc, net |-> net,
   after |-> IF op \in {"none", "get_ldap_node", "new_ldap_node"} \/ call.op # "save" THEN "other"
             ELSE IF call.exc = "none" THEN "save" ELSE "failed save"]
NoNodeCall ==
  [op |-> "none", name |-> "none", value |-> NoArg, exc |-> "none", net |-> <<>>,
   after |-> "other"]
NodeIdle == server = NoEntry /\ node = NodeInit(FALSE) /\ call = NoNodeCall /\ nops = 0

\* what the caller's side can tell of one call on the connection
Log(nc) == [op |-> nc.op, payload |-> nc.payload, exc |-> nc.exc,
            attempts |-> nc.attempts, reconnects |-> nc.reconnects, downs |-> nc.downs,
            first |-> nc.first, connexc |-> nc.connexc]

\* dict([(x[0], LdapAttribute(x[0], x[1])) for x in attr.items()]): one
\* loaded tracker per attribute the server returned, in the order "order"
fetched_attrs(srv, order) ==
  [i \in 1..Len(order) |-> LdapAttribute(order[i], PyList(srv.attrs[order[i]]), FALSE)]

Present(srv) == {n \in Names : srv.attrs[n] # <<>>}
Orders(S) == {o \in [1..Cardinality(S) -> S] : NoDups(o)}

\* The faults a list(query(...)) can meet: f1 on the first next(), c in
\* _connect, f2 on the next() after the reconnect, f3 on a later next().
\* (A fault of a step that is not reached is left "none".)
NoFaults == [f1 |-> "none", c |-> "none", f2 |-> "none", f3 |-> "none"]
QF(f1, c, f2, f3) == [f1 |-> f1, c |-> c, f2 |-> f2, f3 |-> f3]
QueryFaults ==
  {NoFaults, QF("none", "none", "none", SERVER_DOWN),
   QF(SERVER_DOWN, SERVER_DOWN, "none", "none"),
   QF(SERVER_DOWN, "INVALID_CREDENTIALS", "none", "none"),
   QF(SERVER_DOWN, "none", SERVER_DOWN, "none"),
   QF(SERVER_DOWN, "none", "none", "none"),
   QF(SERVER_DOWN, "none", "none", SERVER_DOWN)}
\* The faults an add / modify / delete can meet: f1 on the first attempt, c
\* in _connect, f2 on the second attempt.
CF(f1, c, f2) == [f1 |-> f1, c |-> c, f2 |-> f2]
CallFaults ==
  {CF("none", "none", "none"), CF("WRONG_TYPE", "none", "none"),
   CF(SERVER_DOWN, SERVER_DOWN, "none"), CF(SERVER_DOWN, "INVALID_CREDENTIALS", "none"),
   CF(SERVER_DOWN, "none", "none"), CF(SERVER_DOWN, "none", SERVER_DOWN),
   CF(SERVER_DOWN, "none", "WRONG_TYPE")}
\* faults and dict orders that matter to a call that may have to fetch
FetchFaults == IF node.loaded THEN {NoFaults} ELSE QueryFaults
FetchOrders == IF node.loaded THEN {<<>>} ELSE Orders(Present(server))

\* "if self._attr == None: attr = list(self._conn.query(...))[0][1]; ..." at
\* the head of __getattr__, __setattr__ and __delattr__
lazy_fetch_always(n, srv, cur_lo, fl, order) ==
  LET q == query_base(srv, cur_lo, fl.f1, fl.c, fl.f2, fl.f3)
  IN IF q.exc # "none"
     THEN [node |-> n, exc |-> q.exc, net |-> <<Log(q)>>, lo |-> q.lo]
     ELSE IF q.payload = <<>>
     THEN [node |-> n, exc |-> "IndexError", net |-> <<Log(q)>>, lo |-> q.lo]
     ELSE [node |-> [n EXCEPT !.loaded = TRUE, !.attr = fetched_attrs(srv, order)],
           exc |-> "none", net |-> <<Log(q)>>, lo |-> q.lo]
lazy_fetch(n, srv, cur_lo, fl, order) ==
  IF n.loaded
  THEN [node |-> n, exc |-> "none", net |-> <<>>, lo |-> cur_lo]
  ELSE LET q == query_base(srv, cur_lo, fl.f1, fl.c, fl.f2, fl.f3)
       IN IF q.exc # "none"
          THEN [node |-> n, exc |-> q.exc, net |-> <<Log(q)>>, lo |-> q.lo]
          ELSE IF q.payload = <<>>
          THEN [node |-> n, exc |-> "IndexError", net |-> <<Log(q)>>, lo |-> q.lo]
          ELSE [node |-> [n EXCEPT !.loaded = TRUE, !.attr = fetched_attrs(srv, order)],
                exc |-> "none", net |-> <<Log(q)>>, lo |-> q.lo]

\* the part of LdapNode.__setattr__ after the fetch; a new key lands at
\* position at of the dict's iteration order
setattr(n, name, value, at) ==
  IF HasAttr(n.attr, name)
  THEN [n EXCEPT !.attr[IndexOf(n.attr, name)] = set_value(@, value)]
  ELSE [n EXCEPT !.attr = InsertAt(n.attr, at, LdapAttribute(name, value, TRUE))]

\* the part of LdapNode.__delattr__ after the fetch
delattr(n, name) ==
  [n EXCEPT !.attr = RemoveAt(n.attr, IndexOf(n.attr, name)),
            !.to_delete = Append(n.to_delete, name)]

\* save(): [(x._name, x._values) for x in self._attr.values()]
add_payload(attr) ==
  [i \in 1..Len(attr) |-> [name |-> attr[i].name, values |-> attr[i].values]]

\* save(): for attr in self._attr.values(): change_list.extend(attr.get_change_list())
RECURSIVE extend_all(_, _)
extend_all(change_list, attr) ==
  IF attr = <<>> THEN change_list
  ELSE extend_all(change_list \o get_change_list(Head(attr)), Tail(attr))

\* save(): the change list of an entry that is not new
modify_payload_deletes_last(n) ==
  extend_all(<<>>, n.attr)
    \o [i \in 1..Len(n.to_delete) |-> Instr(MOD_DELETE, n.to_delete[i], PyNone)]
modify_payload(n) ==
  extend_all([i \in 1..Len(n.to_delete) |-> Instr(MOD_DELETE, n.to_delete[i], PyNone)],
             n.attr)

\* save(): the statements after the network call (not reached when it raises)
saved_keeps_new(n) ==
  [n EXCEPT !.to_delete = <<>>,
            !.attr = [i \in 1..Len(n.attr) |-> discard_change_list(n.attr[i])]]
saved(n) ==
  [n EXCEPT !.new = FALSE, !.to_delete = <<>>,
            !.attr = [i \in 1..Len(n.attr) |-> discard_change_list(n.attr[i])]]

\* save(): an exception of self._conn.add / modify leaves save() at once
after_call_always_cleared(n, exc) == saved(n)
after_call(n, exc) == IF exc = "none" THEN saved(n) ELSE n

\* ---------------------------------------------- stand-alone LdapAttribute
Scalars == Strings \cup {PyInt7}
ListItems == Strings

PyValues == {PyScalar(x) : x \in Scalars} \cup {PyList(s) : s \in SeqsUpTo(ListItems, MaxVals)}

NoCall == [op |-> "none", arg |-> "none"]
QueryIdle ==
  /\ stream = NoStream /\ gen = [pc |-> "idle", pos |-> 0] /\ qobs = NoObs
  /\ login = Login /\ auth = NoAuth

\* A tracker built with add=False holds values fetched from the server,
\* which keeps no value twice (line 266).
InitAttr ==
  /\ \E name \in Names, value \in PyValues, add \in BOOLEAN :
       /\ add \/ NoDups(value.items)
       /\ attribute = LdapAttribute(name, value, add)
  /\ ret = <<>>
  /\ last = NoCall
  /\ lo = "bound"
  /\ QueryIdle
  /\ NodeIdle

AttrAppend(value) ==
  /\ Len(attribute.values) < MaxVals
  /\ Len(attribute.added) < MaxAdded
  /\ attribute' = append(attribute, value)
  /\ last' = [op |-> "append", arg |-> value]
  /\ ret' = <<>>
  /\ UNCHANGED <<lo, queryVars, nodeVars>>

AttrSetItem(key, value) ==
  /\ attribute' = setitem(attribute, key, value)
  /\ last' = [op |-> "setitem", arg |-> "none"]
  /\ ret' = <<>>
  /\ UNCHANGED <<lo, queryVars, nodeVars>>

AttrDelItem(key) ==
  /\ attribute' = delitem(attribute, key)
  /\ last' = [op |-> "delitem", arg |-> "none"]
  /\ ret' = <<>>
  /\ UNCHANGED <<lo, queryVars, nodeVars>>

AttrSetValue(value) ==
  /\ attribute' = set_value(attribute, value)
  /\ last' = [op |-> "set_value", arg |-> "none"]
  /\ ret' = <<>>
  /\ UNCHANGED <<lo, queryVars, nodeVars>>

AttrGetChangeList ==
  /\ ret' = get_change_list(attribute)
  /\ last' = [op |-> "get_change_list", arg |-> "none"]
  /\ UNCHANGED <<attribute, lo, queryVars, nodeVars>>

AttrDiscardChangeList ==
  /\ attribute' = discard_change_list(attribute)
  /\ last' = [op |-> "discard_change_list", arg |-> "none"]
  /\ ret' = <<>>
  /\ UNCHANGED <<lo, queryVars, nodeVars>>

NextAttr ==
  \/ \E value \in PyValues : AttrSetValue(value)
  \/ \E value \in Scalars : AttrAppend(value)
  \/ \E key \in 0..MaxVals : AttrDelItem(key)
  \/ \E key \in 0..MaxVals, value \in Scalars : AttrSetItem(key, value)
  \/ AttrGetChangeList
  \/ AttrDiscardChangeList

SpecAttr == InitAttr /\ [][NextAttr]_vars

\* ------------------------------------------------ claims on LdapAttribute
GotChangeList == last.op = "get_change_list"

\* C5: once the value list has been replaced by the empty list (or its last
\* element removed), get_change_list() returns a list holding exactly one
\* delete-attribute instruction (MOD_DELETE, name, None) and nothing else.
C5_DeletionToEmpty ==
  (GotChangeList /\ attribute.replace_all /\ attribute.values = <<>>)
    => ret = <<Instr(MOD_DELETE, attribute.name, PyNone)>>

\* C6: with the full-replace flag set and n >= 1 values, get_change_list()
\* returns one replace instruction carrying the first value, then one add
\* instruction per remaining value in order, and nothing else, whatever
\* incremental add instructions append() has accumulated.
C6_FullReplaceChangeList ==
  (GotChangeList /\ attribute.replace_all /\ Len(attribute.values) >= 1)
    => /\ Len(ret) = Len(attribute.values)
       /\ ret[1] = Instr(MOD_REPLACE, attribute.name, attribute.values[1])
       /\ \A i \in 2..Len(ret) : ret[i] = Instr(MOD_ADD, attribute.name, attribute.values[i])

C6_Witness ==
  /\ GotChangeList
  /\ attribute.replace_all
  /\ Len(attribute.values) = 3
  /\ Len(attribute.added) >= 1
  /\ Len(ret) = 3

\* C7: append is idempotent: a second append of the value just appended
\* changes neither the value list nor the incremental add list.
C7_AppendIdempotent ==
  [][(last.op = "append" /\ last'.op = "append" /\ last'.arg = last.arg)
       => attribute' = attribute]_vars

\* --------------------------------------- a caller consuming query() results
AttrIdle ==
  attribute = Tracker("sn", <<>>, <<>>, FALSE) /\ ret = <<>> /\ last = NoCall

\* LdapConnection.__init__ has returned: _connect succeeded
InitQuery ==
  /\ lo = "bound"
  /\ stream = NoStream
  /\ gen = [pc |-> "idle", pos |-> 0]
  /\ qobs = NoObs
  /\ login = Login
  /\ auth = NoAuth
  /\ AttrIdle
  /\ NodeIdle

\* conn.query(...): the generator object is created, none of its code runs.
\* A generator still being consumed is abandoned.
QueryStart(st) ==
  /\ stream' = st
  /\ gen' = [pc |-> "start", pos |-> 0]
  /\ qobs' = NoObs
  /\ UNCHANGED <<lo, login, auth, attrVars, nodeVars>>

\* next() on the generator
QueryNext(f1, c, f2) ==
  /\ gen.pc \in {"start", "try", "loop"}
  /\ LET o == retry_gen_next(gen, lo, stream, f1, c, f2)
     IN /\ gen' = [pc |-> o.pc, pos |-> o.pos]
        /\ lo' = o.lo
        /\ qobs' = Observe(qobs, o)
  /\ UNCHANGED <<stream, login, auth, attrVars, nodeVars>>

\* conn.authenticate(dn, password)
Authenticate(dn, password, f) ==
  \E r \in {authenticate(lo, login, dn, password, f)} :
     /\ auth' = [dn |-> dn, password |-> password, bind |-> r.bind,
                 ret |-> r.ret, exc |-> r.exc]
     /\ lo' = r.lo
     /\ login' = r.login
     /\ UNCHANGED <<stream, gen, qobs, attrVars, nodeVars>>

NextQuery ==
  \/ \E st \in Streams : QueryStart(st)
  \/ \E f1 \in SearchFaults, c \in ConnFaults, f2 \in SearchFaults : QueryNext(f1, c, f2)
  \/ \E dn \in BindDns, password \in Passwords, f \in BindFaults :
        Authenticate(dn, password, f)

SpecQuery == InitQuery /\ [][NextQuery]_vars

\* C4: a SERVER_DOWN met at any point while the results are consumed makes
\* the connection reconnect once and restart the search from the beginning
\* (unless the reconnect itself fails); it is not surfaced to the caller.
C4_StreamingReconnect ==
  (qobs.downs = 1 /\ qobs.connexc = "none")
    => (qobs.reconnects = 1 /\ qobs.issued = 2 /\ qobs.exc # SERVER_DOWN)

\* ------------------------------------------------- a caller using LdapNode
\* a single value, no value, two values, the same value twice
SetValues == {PyScalar("a"), PyList(<<>>), PyList(<<"a", "b">>), PyList(<<"b", "b">>)}
AppendValues == {"b"}

\* the dn is not in the directory, or holds sn = a, loginShell = b
InitServers ==
  {NoEntry,
   [exists |-> TRUE, attrs |-> [n \in Names |-> IF n = "sn" THEN <<"a">> ELSE <<"b">>]]}

\* LdapConnection.__init__ has returned, conn.get_ldap_node(dn) too
Init ==
  /\ lo = "bound"
  /\ server \in InitServers
  /\ node = NodeInit(FALSE)
  /\ call = NoNodeCall
  /\ nops = 0
  /\ AttrIdle
  /\ QueryIdle

\* conn.get_ldap_node(dn): the caller takes a fresh node for the dn
GetNode ==
  /\ node' = NodeInit(FALSE)
  /\ call' = NodeCall("get_ldap_node", "none", NoArg, "none", <<>>)
  /\ nops' = 0
  /\ UNCHANGED <<lo, server, attrVars, queryVars>>

\* conn.new_ldap_node(dn)
NewNode ==
  /\ node' = NodeInit(TRUE)
  /\ call' = NodeCall("new_ldap_node", "none", NoArg, "none", <<>>)
  /\ nops' = 0
  /\ UNCHANGED <<lo, server, attrVars, queryVars>>

\* LdapNode.__getattr__(name)
Get(name, fl, order) ==
  \E pre \in {lazy_fetch(node, server, lo, fl, order)} :
  LET exc == IF pre.exc # "none" THEN pre.exc
             ELSE IF HasAttr(pre.node.attr, name) THEN "none" ELSE "AttributeError"
  IN /\ nops < MaxOps /\ nops' = nops + 1
     /\ node' = pre.node
     /\ lo' = pre.lo
     /\ call' = NodeCall("get", name, NoArg, exc, pre.net)
     /\ UNCHANGED <<server, attrVars, queryVars>>

\* LdapNode.__setattr__(name, value)
Set(name, value, fl, order, at) ==
  \E pre \in {lazy_fetch(node, server, lo, fl, order)} :
     /\ nops < MaxOps /\ nops' = nops + 1
     /\ node' = IF pre.exc # "none" THEN pre.node
                ELSE setattr(pre.node, name, value, at)
     /\ lo' = pre.lo
     /\ call' = NodeCall("set", name, value, pre.exc, pre.net)
     /\ UNCHANGED <<server, attrVars, queryVars>>

\* LdapNode.__delattr__(name)
Del(name, fl, order) ==
  \E pre \in {lazy_fetch(node, server, lo, fl, order)} :
  LET exc == IF pre.exc # "none" THEN pre.exc
             ELSE IF HasAttr(pre.node.attr, name) THEN "none" ELSE "KeyError"
  IN /\ nops < MaxOps /\ nops' = nops + 1
     /\ Len(node.to_delete) < MaxPending
     /\ node' = IF exc # "none" THEN pre.node ELSE delattr(pre.node, name)
     /\ lo' = pre.lo
     /\ call' = NodeCall("del", name, NoArg, exc, pre.net)
     /\ UNCHANGED <<server, attrVars, queryVars>>

\* node.<name>.append(value) on a tracker the caller has read from the node
NodeAppend(name, value) ==
  /\ nops < MaxOps /\ nops' = nops + 1
  /\ node.loaded /\ HasAttr(node.attr, name)
  /\ Len(node.attr[IndexOf(node.attr, name)].values) < MaxList
  /\ Len(node.attr[IndexOf(node.attr, name)].added) < MaxAdded
  /\ node' = [node EXCEPT !.attr[IndexOf(node.attr, name)] = append(@, value)]
  /\ call' = NodeCall("append", name, PyScalar(value), "none", <<>>)
  /\ UNCHANGED <<lo, server, attrVars, queryVars>>

\* del node.<name>[0]
NodeDelItem(name, key) ==
  /\ nops < MaxOps /\ nops' = nops + 1
  /\ node.loaded /\ HasAttr(node.attr, name)
  /\ node' = [node EXCEPT !.attr[IndexOf(node.attr, name)] = delitem(@, key)]
  /\ call' = NodeCall("delitem", name, NoArg,
                      IF key < Len(node.attr[IndexOf(node.attr, name)].values)
                      THEN "none" ELSE "IndexError", <<>>)
  /\ UNCHANGED <<lo, server, attrVars, queryVars>>

\* LdapNode.save
Save(fl) ==
  /\ nops < MaxOps /\ nops' = nops + 1
  /\ IF ~node.new /\ ~node.loaded
     THEN \* self._attr is None: self._attr.values() raises
          /\ call' = NodeCall("save", "none", NoArg, "AttributeError", <<>>)
          /\ UNCHANGED <<node, lo, server>>
     ELSE IF ~node.new /\ modify_payload(node) = <<>>
     THEN \* nothing to send: return
          /\ call' = NodeCall("save", "none", NoArg, "none", <<>>)
          /\ UNCHANGED <<node, lo, server>>
     ELSE \E req \in {IF node.new
                       THEN [op |-> "add", payload |-> add_payload(node.attr)]
                       ELSE [op |-> "modify", payload |-> modify_payload(node)]} :
          \E r \in {retry_on_disconnect(server, lo, req, fl.f1, fl.c, fl.f2)} :
             /\ server' = r.srv
             /\ lo' = r.lo
             /\ node' = after_call(node, r.exc)
             /\ call' = NodeCall("save", "none", NoArg, r.exc, <<Log(r)>>)
  /\ UNCHANGED <<attrVars, queryVars>>

\* LdapNode.delete
Delete(fl) ==
  \E r \in {retry_on_disconnect(server, lo, [op |-> "delete", payload |-> <<>>],
                                 fl.f1, fl.c, fl.f2)} :
     /\ nops < MaxOps /\ nops' = nops + 1
     /\ server' = r.srv
     /\ lo' = r.lo
     /\ node' = IF r.exc = "none" THEN [node EXCEPT !.valid = FALSE] ELSE node
     /\ call' = NodeCall("delete", "none", NoArg, r.exc, <<Log(r)>>)
     /\ UNCHANGED <<attrVars, queryVars>>

Next ==
  \/ GetNode
  \/ NewNode
  \/ \E name \in Names, fl \in FetchFaults, order \in FetchOrders : Get(name, fl, order)
  \/ \E name \in Names, value \in SetValues, fl \in FetchFaults, order \in FetchOrders,
        at \in 1..(Len(node.attr) + 1) : Set(name, value, fl, order, at)
  \/ \E name \in Names, fl \in FetchFaults, order \in FetchOrders : Del(name, fl, order)
  \/ \E name \in Names, value \in AppendValues : NodeAppend(name, value)
  \/ \E name \in Names : NodeDelItem(name, 0)
  \/ \E fl \in CallFaults : Save(fl)
  \/ \E fl \in CallFaults : Delete(fl)

Spec == Init /\ [][Next]_vars

\* ------------------------------------------------ claims on LdapNode.save
Range(s) == {s[i] : i \in 1..Len(s)}

\* a step that runs save() / the connection call save() made, if any
SaveStep == call'.op = "save" /\ nops' = nops + 1
SaveCalls(c) == c.op = "save" /\ c.net # <<>>

\* the values of name that a node fetched afresh from srv shows, for the
\* dict order the fetch happens to produce
FreshGet(srv, name, order) ==
  LET f == lazy_fetch(NodeInit(FALSE), srv, "bound", NoFaults, order)
  IN IF f.exc # "none" THEN {"<" \o f.exc \o ">"}
     ELSE IF HasAttr(f.node.attr, name)
          THEN Range(f.node.attr[IndexOf(f.node.attr, name)].values)
          ELSE {}

\* the value set V a caller passes to __setattr__, as text
TextSet(value) == {str(x) : x \in Range(value.items)}

C2_ReconnectTransparent ==
  \A i \in 1..Len(call.net) :
     LET L == call.net[i]
     IN (/\ L.first = SERVER_DOWN /\ L.downs = 1 /\ L.connexc = "none"
         /\ L.exc \in {"none", SERVER_DOWN})
          => (/\ L.exc = "none" /\ call.exc \notin {SERVER_DOWN}
              /\ L.reconnects = 1 /\ L.attempts = 2 /\ lo = "bound")

\* the search of a lazy fetch restarted after a reconnect; it found the entry
C2_Witness ==
  /\ call.op \in {"get", "set", "del"} /\ call.exc = "none" /\ Len(call.net) = 1
  /\ call.net[1].op = "query" /\ call.net[1].first = SERVER_DOWN
  /\ call.net[1].downs = 1 /\ call.net[1].reconnects = 1 /\ call.net[1].attempts = 2
  /\ call.net[1].payload # <<>> /\ node.loaded

\* C3: one call of add, modify or delete runs the protocol operation at most
\* twice and reconnects at most once; the result of the second attempt is
\* the result of the call; an error other than SERVER_DOWN on the first
\* attempt is raised at once, with no reconnect and no second attempt.
C3_BoundedRetry ==
  \A i \in 1..Len(call.net) :
     LET L == call.net[i]
     IN L.op \in {"add", "modify", "delete"}
          => /\ L.attempts \in 1..2 /\ L.reconnects \in 0..1
             /\ L.attempts = 2 => (L.reconnects = 1 /\ L.first = SERVER_DOWN)
             /\ L.first # SERVER_DOWN
                  => (L.attempts = 1 /\ L.reconnects = 0 /\ L.exc = L.first)
             /\ call.exc = L.exc

\* the second attempt failed as well, or the first failed otherwise
C3_Witness ==
  /\ SaveCalls(call) /\ call.net[1].op = "modify"
  /\ \/ call.net[1].attempts = 2 /\ call.net[1].downs = 2 /\ call.exc = SERVER_DOWN
     \/ call.net[1].attempts = 1 /\ call.net[1].first = "LDAPError" /\ call.exc = "LDAPError"

\* the delete-attribute instructions of the pending deletions, in order
RECURSIVE Deletes(_)
Deletes(to_delete) ==
  IF to_delete = <<>> THEN <<>>
  ELSE <<Instr(MOD_DELETE, Head(to_delete), PyNone)>> \o Deletes(Tail(to_delete))

\* the trackers' change lists one after the other, in mapping order
RECURSIVE Concat(_)
Concat(attr) ==
  IF attr = <<>> THEN <<>>
  ELSE get_change_list(Head(attr)) \o Concat(Tail(attr))

\* C8: save() of a loaded entry that is not new sends the delete-attribute
\* instructions of the pending deletions followed by every tracker's change
\* list: no network call when that list is empty, else exactly one modify.
C8_CombinedList ==
  [][(SaveStep /\ ~node.new /\ node.loaded)
       => LET change_list == Deletes(node.to_delete) \o Concat(node.attr)
          IN IF change_list = <<>>
             THEN call'.net = <<>> /\ call'.exc = "none"
             ELSE /\ Len(call'.net) = 1
                  /\ call'.net[1].op = "modify"
                  /\ call'.net[1].payload = change_list]_vars

\* one modify carrying a pending deletion followed by a tracker's change list
C8_Witness ==
  /\ call.op = "save" /\ Len(call.net) = 1 /\ call.net[1].op = "modify"
  /\ call.net[1].payload = <<Instr(MOD_DELETE, "loginShell", PyNone),
                             Instr(MOD_REPLACE, "sn", "a"), Instr(MOD_ADD, "sn", "b")>>

\* C9: when the add / modify of save() raises, the node is left as it was,
\* and a save() repeated at once sends the same request.
C9_FailedSaveKeepsState ==
  [][/\ (SaveStep /\ call'.net # <<>> /\ call'.exc # "none") => node' = node
     /\ (SaveCalls(call) /\ call.exc # "none" /\ SaveStep)
          => /\ Len(call'.net) = 1
             /\ call'.net[1].op = call.net[1].op
             /\ call'.net[1].payload = call.net[1].payload]_vars

\* a repeated save() after a failed one, with something to send
C9_Witness ==
  /\ call.op = "save" /\ call.after = "failed save" /\ SaveCalls(call)
  /\ call.net[1].payload # <<>>
  /\ \/ node.to_delete # <<>>
     \/ \E i \in 1..Len(node.attr) : node.attr[i].replace_all \/ node.attr[i].added # <<>>

Clean(n) ==
  /\ n.to_delete = <<>>
  /\ \A i \in 1..Len(n.attr) : n.attr[i].added = <<>> /\ ~n.attr[i].replace_all

\* C10: after a successful save() nothing is pending (no deletion, no add
\* list, no replace flag) and the values are what they were; a save()
\* repeated at once makes no network call.
C10_SuccessfulSaveClears ==
  [][/\ (SaveStep /\ call'.exc = "none")
          => /\ Clean(node')
             /\ Len(node'.attr) = Len(node.attr)
             /\ \A i \in 1..Len(node.attr) :
                   /\ node'.attr[i].name = node.attr[i].name
                   /\ node'.attr[i].values = node.attr[i].values
     /\ (call.op = "save" /\ call.exc = "none" /\ SaveStep)
          => (call'.net = <<>> /\ call'.exc = "none")]_vars

\* a save() repeated after one that sent a replace and succeeded
C10_Witness ==
  /\ call.op = "save" /\ call.after = "save" /\ call.net = <<>>
  /\ node.loaded /\ Clean(node)
  /\ \E i \in 1..Len(node.attr) : Len(node.attr[i].values) = 2
  /\ server.attrs["sn"] = <<"a", "b">>

\* ---------------------------------------------- claims on the LdapNode life
\* C11: save() on an entry that is not new and was never fetched raises the
\* library's NotYetFetched error, makes no network call and leaves the
\* entry unfetched.
C11_UnfetchedSaveGuard ==
  (call.op = "save" /\ ~node.new /\ ~node.loaded)
    => (call.exc = "NotYetFetched" /\ call.net = <<>>)

\* C12: once delete() has succeeded the entry is invalid for good: every
\* later attribute read, write, removal or save raises the invalid-entry
\* error and makes no network call; a delete() that raises leaves the entry
\* valid.
C12_InvalidIsTerminal ==
  /\ (~node.valid /\ call.op \in {"get", "set", "del", "save"})
       => (call.exc = "InvalidEntry" /\ call.net = <<>>)
  /\ (call.op = "delete" /\ call.exc # "none") => node.valid

\* a step that runs __delattr__ / __getattr__
DelStep == call'.op = "del" /\ nops' = nops + 1
GetStep == call'.op = "get" /\ nops' = nops + 1

\* C13: on a loaded entry, removing a name that has a tracker drops the
\* tracker and appends the name to the pending deletions; a save() that
\* follows (nothing else pending) sends one modify holding the single
\* delete-attribute instruction; a read of a name without tracker raises
\* the attribute-not-found error (AttributeError, line 272); removing a name
\* without tracker raises that same error and changes nothing.
C13_AttributeRemoval ==
  [][/\ (DelStep /\ node.loaded /\ HasAttr(node.attr, call'.name))
          => /\ call'.exc = "none"
             /\ ~HasAttr(node'.attr, call'.name)
             /\ node'.to_delete = Append(node.to_delete, call'.name)
     /\ (DelStep /\ node.loaded /\ ~HasAttr(node.attr, call'.name))
          => (call'.exc = "AttributeError" /\ node' = node)
     /\ (/\ call.op = "del" /\ call.exc = "none" /\ node.to_delete = <<call.name>>
         /\ Concat(node.attr) = <<>> /\ ~node.new /\ SaveStep)
          => /\ Len(call'.net) = 1 /\ call'.net[1].op = "modify"
             /\ call'.net[1].payload = <<Instr(MOD_DELETE, call.name, PyNone)>>
     /\ (GetStep /\ node.loaded /\ ~HasAttr(node.attr, call'.name))
          => call'.exc = "AttributeError"]_vars

\* C14: save() on an entry flagged new makes exactly one add call whose
\* payload pairs every tracker's name with its full value list, whatever
\* the trackers' change lists hold; when it returns normally the flag is
\* cleared, and it is never set again on that entry, so that no later
\* save() makes an add call.
C14_SavingNewEntry ==
  [][/\ (SaveStep /\ node.new)
          => /\ Len(call'.net) = 1 /\ call'.net[1].op = "add"
             /\ Len(call'.net[1].payload) = Len(node.attr)
             /\ \A i \in 1..Len(node.attr) :
                   call'.net[1].payload[i] =
                     [name |-> node.attr[i].name, values |-> node.attr[i].values]
             /\ node'.new = (call'.exc # "none")
     /\ (~node.new /\ call'.op \notin {"get_ldap_node", "new_ldap_node"}) => ~node'.new
     /\ (SaveStep /\ ~node.new)
          => \A i \in 1..Len(call'.net) : call'.net[i].op = "modify"]_vars

\* a new entry has been saved by one add carrying a two-valued attribute
C14_Witness ==
  /\ call.op = "save" /\ call.exc = "none" /\ ~node.new
  /\ Len(call.net) = 1 /\ call.net[1].op = "add"
  /\ \E i \in 1..Len(call.net[1].payload) : Len(call.net[1].payload[i].values) = 2
  /\ server.exists

\* ------------------------------------- claims on LdapConnection.authenticate
\* C15: authenticate(dn, password) returns True exactly when the bind on the
\* separate session succeeds, returns False without raising when the server
\* answers INVALID_CREDENTIALS, lets any other exception of the bind through,
\* and in every case leaves the connection's own session handle and its
\* stored login and password as they were.
C15_Authenticate ==
  [][auth' # auth
       => /\ (auth'.ret = "True") <=> (auth'.bind = "RES_BIND")
          /\ auth'.bind = "INVALID_CREDENTIALS" => (auth'.ret = "False" /\ auth'.exc = "none")
          /\ auth'.bind \notin {"RES_BIND", "RES_OTHER", "INVALID_CREDENTIALS"}
               => (auth'.exc = auth'.bind /\ auth'.ret = "none")
          /\ (auth'.ret = "none") <=> (auth'.exc # "none")
          /\ lo' = lo /\ login' = login]_vars

\* a user's password has been verified while the connection's own session
\* was left unbound by a failed reconnect
C15_Witness ==
  /\ auth.dn = "cn=u" /\ auth.ret = "True" /\ auth.exc = "none"
  /\ lo = "unbound" /\ login = Login

\* ------------------------------------------------- invariants of the objects
\* C16: a name in the pending-deletion list has no tracker in the attribute
\* mapping.
C16_PendingAbsentFromMapping ==
  \A i \in 1..Len(node.to_delete) : ~HasAttr(node.attr, node.to_delete[i])

\* C17: an entry whose new flag is set has no pending deletion.
C17_NewHasNoPendingDeletion ==
  node.new => node.to_delete = <<>>

\* C18: the value list of an LdapAttribute never holds a value twice.
C18_NoDuplicateValues ==
  NoDups(attribute.values)

\* C19: between two calls the connection's session handle is a bound
\* session, also after a call whose reconnect failed in the bind.
C19_SessionBound ==
  lo = "bound"

\* ------------------------------------------------ claims on the lazy fetch
\* the searches among the connection calls a node call made
Fetches(c) == {i \in 1..Len(c.net) : c.net[i].op = "query"}

\* C20: an entry that is not new makes no search before its first attribute
\* read, write or removal; that call makes one search of its dn and, when
\* the search returns the entry, fills the mapping with the entry's
\* attributes; once the mapping is filled no call searches again; save()
\* and delete() never search; a new entry never searches.
C20_LazyFetch ==
  [][/\ call'.op \in {"get_ldap_node", "new_ldap_node"}
          => (call'.net = <<>> /\ node'.loaded = node'.new)
     /\ nops' = nops + 1
       => /\ (call'.op \in {"get", "set", "del"} /\ ~node.loaded)
               => /\ Len(call'.net) = 1 /\ Fetches(call') = {1}
                  /\ node'.loaded
                       = (call'.net[1].exc = "none" /\ call'.net[1].payload # <<>>)
          /\ (call'.op = "get" /\ ~node.loaded /\ node'.loaded)
               => /\ {node'.attr[i].name : i \in 1..Len(node'.attr)} = Present(server)
                  /\ \A i \in 1..Len(node'.attr) :
                        node'.attr[i] = Tracker(node'.attr[i].name,
                                                server.attrs[node'.attr[i].name], <<>>, FALSE)
          /\ node.loaded => (Fetches(call') = {} /\ node'.loaded)
          /\ call'.op \notin {"get", "set", "del"}
               => (Fetches(call') = {} /\ node'.loaded = node.loaded)
          /\ node.new => Fetches(call') = {}]_vars

\* an entry fetched by an earlier call is read again with no network call
C20_Witness ==
  /\ ~node.new /\ node.loaded /\ nops >= 2
  /\ call.op = "get" /\ call.exc = "none" /\ call.net = <<>>

\* ------------------------------------- claims on the list passed to modify
\* an (operation kind, name, value) triple as modify_s takes it
WellFormed(e) ==
  /\ IsInstr(e)
  /\ e.op \in {MOD_ADD, MOD_DELETE, MOD_REPLACE}
  /\ e.name \in Names
  /\ (e.op = MOD_DELETE) = (e.value = PyNone)

\* the number of instructions a tracker stands for: one per value (a single
\* delete-attribute when no value is left) after a full replace, one per
\* recorded add otherwise
InstrCount(self) ==
  IF self.replace_all
  THEN (IF self.values = <<>> THEN 1 ELSE Len(self.values))
  ELSE Len(self.added)

RECURSIVE InstrTotal(_)
InstrTotal(attr) ==
  IF attr = <<>> THEN 0 ELSE InstrCount(Head(attr)) + InstrTotal(Tail(attr))

\* C21: every element of the list save() passes to modify is a well-formed
\* (operation kind, name, value) triple, and the list is as long as the
\* pending deletions plus the instruction counts of all trackers; a tracker
\* emptied by a full replace counts for one element.
C21_WellFormedInstructions ==
  [][(SaveStep /\ ~node.new /\ node.loaded)
       => \A k \in 1..Len(call'.net) :
             call'.net[k].op = "modify"
               => /\ \A i \in 1..Len(call'.net[k].payload) :
                        WellFormed(call'.net[k].payload[i])
                  /\ Len(call'.net[k].payload)
                       = Len(node.to_delete) + InstrTotal(node.attr)]_vars

====
